---- MODULE Spec2Model ----
(***************************************************************************)
(* Model of live-biz-plan: the Markdown <-> TipTap-JSON converter          *)
(* (lib/markdownUtils), the lock computation of services/gemini and the    *)
(* document-session handlers of App.tsx.                                   *)
(*                                                                         *)
(* Text is a sequence of one-character strings, so that split, trim,       *)
(* startsWith and the regular expressions of the source are computed       *)
(* character by character.                                                 *)
(***************************************************************************)
EXTENDS Integers, Sequences, FiniteSets, TLC

(***************************************************************************)
(* String primitives (JavaScript String methods used by the source)        *)
(***************************************************************************)
NL == "\n"

\* the white space String.prototype.trim and the regex class \s remove
WhiteSpace == {" ", "\n", "\t"}

Digit == {"0", "1", "2", "3", "4", "5", "6", "7", "8", "9"}

Drop(s, n) == SubSeq(s, n + 1, Len(s))

Take(s, n) == SubSeq(s, 1, n)

\* s.startsWith(p)
StartsWith(s, p) == Len(s) >= Len(p) /\ Take(s, Len(p)) = p

RECURSIVE TrimStart(_)
TrimStart(s) ==
  IF s # <<>> /\ Head(s) \in WhiteSpace THEN TrimStart(Tail(s)) ELSE s

RECURSIVE TrimEnd(_)
TrimEnd(s) ==
  IF s # <<>> /\ s[Len(s)] \in WhiteSpace THEN TrimEnd(Take(s, Len(s) - 1)) ELSE s

Trim(s) == TrimStart(TrimEnd(s))

\* the lines of s.split(newline): always at least one line
RECURSIVE SplitFrom(_, _, _)
SplitFrom(s, acc, cur) ==
  IF s = <<>> THEN Append(acc, cur)
  ELSE IF Head(s) = NL THEN SplitFrom(Tail(s), Append(acc, cur), <<>>)
  ELSE SplitFrom(Tail(s), acc, Append(cur, Head(s)))

Split(s) == SplitFrom(s, <<>>, <<>>)

\* parts.join(sep)
RECURSIVE Join(_, _)
Join(parts, sep) ==
  IF parts = <<>> THEN <<>>
  ELSE IF Len(parts) = 1 THEN parts[1]
  ELSE parts[1] \o sep \o Join(Tail(parts), sep)

\* parts.join(empty string)
RECURSIVE Concat(_)
Concat(parts) == IF parts = <<>> THEN <<>> ELSE Head(parts) \o Concat(Tail(parts))

\* character.repeat(n)
RECURSIVE Repeat(_, _)
Repeat(c, n) == IF n <= 0 THEN <<>> ELSE <<c>> \o Repeat(c, n - 1)

\* the decimal digits of a positive number (the template literal of i + 1)
RECURSIVE Decimal(_)
Decimal(n) ==
  LET d == <<"0", "1", "2", "3", "4", "5", "6", "7", "8", "9">>[(n % 10) + 1]
  IN  IF n < 10 THEN <<d>> ELSE Decimal(n \div 10) \o <<d>>

\* the length of the longest prefix of s made of characters of set cs
RECURSIVE PrefixLen(_, _)
PrefixLen(s, cs) ==
  IF s # <<>> /\ Head(s) \in cs THEN 1 + PrefixLen(Tail(s), cs) ELSE 0

\* line.match(/^#+/)?.[0].length || 1
HashRun(line) == LET n == PrefixLen(line, {"#"}) IN IF n = 0 THEN 1 ELSE n

\* line.replace(/^#+\s/, empty)
StripHashes(line) ==
  LET n == PrefixLen(line, {"#"})
  IN  IF n >= 1 /\ Len(line) > n /\ line[n + 1] \in WhiteSpace
      THEN Drop(line, n + 1) ELSE line

\* l.replace(/^#\s/, empty)
StripOneHash(l) ==
  IF Len(l) >= 2 /\ l[1] = "#" /\ l[2] \in WhiteSpace THEN Drop(l, 2) ELSE l

\* line.replace(/^[-*]\s/, empty)
StripBullet(line) ==
  IF Len(line) >= 2 /\ line[1] \in {"-", "*"} /\ line[2] \in WhiteSpace
  THEN Drop(line, 2) ELSE line

\* /^\d+\.\s/.test(line)
IsOrderedLine(line) ==
  LET n == PrefixLen(line, Digit)
  IN  n >= 1 /\ Len(line) >= n + 2 /\ line[n + 1] = "." /\ line[n + 2] \in WhiteSpace

\* line.replace(/^\d+\.\s/, empty)
StripOrdered(line) ==
  IF IsOrderedLine(line) THEN Drop(line, PrefixLen(line, Digit) + 2) ELSE line

\* line.replace(/^>\s/, empty)
StripQuote(line) ==
  IF Len(line) >= 2 /\ line[1] = ">" /\ line[2] \in WhiteSpace THEN Drop(line, 2) ELSE line

\* the backquote character (written as a token: the lexer reserves the character)
BackTick == "BT"

Fence == <<BackTick, BackTick, BackTick>>

(***************************************************************************)
(* Blocks (TipTap JSON nodes).  A node is a record tagged by type:         *)
(*   heading [level, text]      text = the joined text of its runs         *)
(*   paragraph [runs]           a run is [text, marks], marks a sequence   *)
(*   bulletList / orderedList [items]   an item is the text of the first   *)
(*                              run of its first child, what serialize reads*)
(*   codeBlock [text], blockquote [text], horizontalRule                   *)
(* level = 0 stands for a heading node without attrs.level.                *)
(***************************************************************************)
Heading(level, text) == [type |-> "heading", level |-> level, text |-> text]

Paragraph(runs) == [type |-> "paragraph", runs |-> runs]

Run(text, marks) == [text |-> text, marks |-> marks]

BulletList(items) == [type |-> "bulletList", items |-> items]

OrderedList(items) == [type |-> "orderedList", items |-> items]

CodeBlock(text) == [type |-> "codeBlock", text |-> text]

Blockquote(text) == [type |-> "blockquote", text |-> text]

Divider == [type |-> "horizontalRule"]

(***************************************************************************)
(* serializeToMarkdown                                                     *)
(***************************************************************************)
\* c.marks.forEach: each mark wraps what the marks before it produced
RECURSIVE ApplyMarks(_, _)
ApplyMarks(t, marks) ==
  IF marks = <<>> THEN t
  ELSE LET m == Head(marks)
           w == IF m = "bold" THEN <<"*", "*">> \o t \o <<"*", "*">>
                ELSE IF m = "italic" THEN <<"*">> \o t \o <<"*">>
                ELSE IF m = "code" THEN <<BackTick>> \o t \o <<BackTick>>
                ELSE t
       IN  ApplyMarks(w, Tail(marks))

RunText(c) == ApplyMarks(c.text, c.marks)

\* items.map((li, i) => prefix(i) + text(li)), joined by newline below
BulletLines(items) == [i \in 1..Len(items) |-> <<"-", " ">> \o items[i]]

OrderedLines(items) == [i \in 1..Len(items) |-> Decimal(i) \o <<".", " ">> \o items[i]]

SerializeNode(node) ==
  CASE node.type = "heading" ->
         Repeat("#", IF node.level = 0 THEN 1 ELSE node.level) \o <<" ">>
           \o node.text \o <<NL, NL>>
    [] node.type = "paragraph" ->
         LET pText == Concat([i \in 1..Len(node.runs) |-> RunText(node.runs[i])])
         IN  IF pText # <<>> THEN pText \o <<NL, NL>> ELSE <<NL>>
    [] node.type = "bulletList" -> Join(BulletLines(node.items), <<NL>>) \o <<NL, NL>>
    [] node.type = "orderedList" -> Join(OrderedLines(node.items), <<NL>>) \o <<NL, NL>>
    [] node.type = "codeBlock" -> Fence \o <<NL>> \o node.text \o <<NL>> \o Fence \o <<NL, NL>>
    [] node.type = "blockquote" -> <<">", " ">> \o node.text \o <<NL, NL>>
    [] node.type = "horizontalRule" -> <<"-", "-", "-", NL, NL>>
    [] OTHER -> <<>>

serializeToMarkdown(json) ==
  Trim(Concat([i \in 1..Len(json) |-> SerializeNode(json[i])]))

(***************************************************************************)
(* parseMarkdownToJSON                                                     *)
(*   content: the blocks pushed so far; cur: the index in content of the   *)
(*   list that currentList refers to (0 for null).  currentList is an      *)
(*   alias of the node in content, so a push to it changes content[cur].   *)
(***************************************************************************)
RECURSIVE CodeEnd(_, _)
\* the index where the loop consuming lines up to the next fence line stops
CodeEnd(lines, i) ==
  IF i <= Len(lines) /\ ~StartsWith(lines[i], Fence) THEN CodeEnd(lines, i + 1) ELSE i

\* codeContent: every consumed line followed by a newline
CodeContent(lines, from, to) ==
  Concat([k \in 1..(to - from) |-> lines[from + k - 1] \o <<NL>>])

PushItem(content, cur, text) ==
  [content EXCEPT ![cur] = [@ EXCEPT !.items = Append(@, text)]]

RECURSIVE ParseFrom(_, _, _, _)
ParseFrom(lines, i, content, cur) ==
  IF i > Len(lines) THEN content
  ELSE
    LET line == TrimEnd(lines[i])
        open(kind) == cur # 0 /\ content[cur].type = kind
    IN
    IF line = <<>> THEN ParseFrom(lines, i + 1, content, cur)
    ELSE IF StartsWith(line, <<"#">>) THEN
      ParseFrom(lines, i + 1,
                Append(content, Heading(HashRun(line), StripHashes(line))), cur)
    ELSE IF StartsWith(line, <<"-", " ">>) \/ StartsWith(line, <<"*", " ">>) THEN
      IF open("bulletList")
      THEN ParseFrom(lines, i + 1, PushItem(content, cur, StripBullet(line)), cur)
      ELSE ParseFrom(lines, i + 1,
                     Append(content, BulletList(<<StripBullet(line)>>)),
                     Len(content) + 1)
    ELSE IF IsOrderedLine(line) THEN
      IF open("orderedList")
      THEN ParseFrom(lines, i + 1, PushItem(content, cur, StripOrdered(line)), cur)
      ELSE ParseFrom(lines, i + 1,
                     Append(content, OrderedList(<<StripOrdered(line)>>)),
                     Len(content) + 1)
    ELSE IF StartsWith(line, <<">", " ">>) THEN
      ParseFrom(lines, i + 1, Append(content, Blockquote(StripQuote(line))), 0)
    ELSE IF StartsWith(line, Fence) THEN
      LET stop == CodeEnd(lines, i + 1)
      IN  ParseFrom(lines, stop + 1,
                    Append(content, CodeBlock(Trim(CodeContent(lines, i + 1, stop)))), 0)
    ELSE IF line = <<"-", "-", "-">> \/ line = <<"*", "*", "*">> THEN
      ParseFrom(lines, i + 1, Append(content, Divider), 0)
    ELSE
      ParseFrom(lines, i + 1, Append(content, Paragraph(<<Run(line, <<>>)>>)), 0)

parseMarkdownToJSON(markdown) == ParseFrom(Split(markdown), 1, <<>>, 0)

(***************************************************************************)
(* extractSections                                                         *)
(***************************************************************************)
RECURSIVE SelectLines(_)
\* lines.filter(l => l.startsWith(hash space))
SelectLines(lines) ==
  IF lines = <<>> THEN <<>>
  ELSE IF StartsWith(Head(lines), <<"#", " ">>)
       THEN <<Head(lines)>> \o SelectLines(Tail(lines))
       ELSE SelectLines(Tail(lines))

extractSections(markdown) ==
  LET ls == SelectLines(Split(markdown))
  IN  [i \in 1..Len(ls) |-> Trim(StripOneHash(ls[i]))]

(***************************************************************************)
(* constants.ts                                                            *)
(***************************************************************************)
\* how many titles of the catalog the model keeps (the source lists 15)
NumSections == 2

TitleChars == <<"A", "B", "C", "D", "E", "F">>

INITIAL_SECTIONS == [i \in 1..NumSections |-> <<TitleChars[i]>>]

INITIAL_MARKDOWN == <<"#", " ">> \o INITIAL_SECTIONS[1] \o <<NL, NL>>

SectionMeta(id, editedAt, locked) == [id |-> id, editedAt |-> editedAt, locked |-> locked]

INITIAL_SECTION_META == <<SectionMeta(INITIAL_SECTIONS[1], 0, FALSE)>>

(***************************************************************************)
(* services/gemini: the lock computation of processChatAndDoc              *)
(***************************************************************************)
LockWindowMs == 1000 * 60 * 2

\* faulty variant: the window is closed on the right
IsLockedRelaxed(s, t) == s.locked \/ (t - s.editedAt <= LockWindowMs /\ s.editedAt > 0)

\* faulty variant: editedAt = 0 is not exempt
IsLockedNoZeroGuard(s, t) == s.locked \/ t - s.editedAt < LockWindowMs

\* s.locked || (Date.now() - s.editedAt < 1000 * 60 * 2 && s.editedAt > 0)
IsLocked(s, t) == s.locked \/ (t - s.editedAt < LockWindowMs /\ s.editedAt > 0)

RECURSIVE FilterLocked(_, _)
FilterLocked(sectionsMeta, t) ==
  IF sectionsMeta = <<>> THEN <<>>
  ELSE IF IsLocked(Head(sectionsMeta), t)
       THEN <<Head(sectionsMeta).id>> \o FilterLocked(Tail(sectionsMeta), t)
       ELSE FilterLocked(Tail(sectionsMeta), t)

\* sectionsMeta.filter(...).map(s => s.id)
lockedSections(sectionsMeta, t) == FilterLocked(sectionsMeta, t)

(***************************************************************************)
(* App.tsx: section metadata reconciliation                                *)
(***************************************************************************)
HasId(sections, header) == \E k \in 1..Len(sections) : sections[k].id = header

\* prev.sections.find(s => s.id === header): the first entry with that id
Find(sections, header) ==
  sections[CHOOSE k \in 1..Len(sections) :
             /\ sections[k].id = header
             /\ \A j \in 1..(k - 1) : sections[j].id # header]

\* faulty variant: the rewrite path bumps editedAt as the user path does
newSectionsBumping(prevSections, currentHeaders, t) ==
  [i \in 1..Len(currentHeaders) |->
     IF HasId(prevSections, currentHeaders[i])
     THEN [Find(prevSections, currentHeaders[i]) EXCEPT !.editedAt = t]
     ELSE SectionMeta(currentHeaders[i], t, FALSE)]

\* handleSendMessage: currentHeaders.map(...) of the rewrite path
newSections(prevSections, currentHeaders, t) ==
  [i \in 1..Len(currentHeaders) |->
     IF HasId(prevSections, currentHeaders[i])
     THEN Find(prevSections, currentHeaders[i])
     ELSE SectionMeta(currentHeaders[i], t, FALSE)]

\* faulty variant: every entry is made afresh, the previous flag is lost
newSectionsMetaUnlocking(prevSections, currentHeaders, t) ==
  [i \in 1..Len(currentHeaders) |-> SectionMeta(currentHeaders[i], t, FALSE)]

\* faulty variant: an entry carried forward keeps its editedAt
newSectionsMetaNoBump(prevSections, currentHeaders, t) ==
  [i \in 1..Len(currentHeaders) |->
     IF HasId(prevSections, currentHeaders[i])
     THEN Find(prevSections, currentHeaders[i])
     ELSE SectionMeta(currentHeaders[i], t, FALSE)]

\* handleDocUpdate: currentHeaders.map(...) of the user path
newSectionsMeta(prevSections, currentHeaders, t) ==
  [i \in 1..Len(currentHeaders) |->
     IF HasId(prevSections, currentHeaders[i])
     THEN [Find(prevSections, currentHeaders[i]) EXCEPT !.editedAt = t]
     ELSE SectionMeta(currentHeaders[i], t, FALSE)]

(***************************************************************************)
(* Bounds and input pools                                                  *)
(***************************************************************************)
\* Date.now() advances in steps of TickMs, MaxTicks times at most
TickMs == 60000

MaxTicks == 2

\* how long the transcript grows at most: a send needs room for the user message
\* and for the reply, a scaffolded section for its notice
MaxMessages == 4

T1 == INITIAL_SECTIONS[1]

T2 == INITIAL_SECTIONS[2]

H1(title) == <<"#", " ">> \o title

\* what the user types in raw mode (the textarea accepts any text)
RawTexts ==
  { H1(T1) \o <<NL, NL>> \o H1(T1),
    H1(T2) \o <<NL, NL, "x">>,
    <<>> }

\* what the user makes of the document in the block editor
EditorDocs ==
  { <<Heading(1, T1), Paragraph(<<Run(<<"x">>, <<>>)>>)>>,
    <<Heading(1, T1), Paragraph(<<>>)>> }

\* the texts the document-generation call answers with
AITexts ==
  { H1(T1) \o <<NL, NL, "y">>,
    H1(T1) \o <<NL, NL, "y", NL, NL>> \o H1(<<"Z">>) }

(***************************************************************************)
(* App.tsx: state                                                          *)
(***************************************************************************)
VARIABLES
  docState,      \* useState<DocumentState>: markdown, json, sections, lastUpdated
  messages,      \* the transcript, each message by what it says
  isLoading,     \* useState(false)
  findings,      \* useState<ReviewFinding[]>
  nextQuestion,  \* useState<string>
  request,       \* the pending processChatAndDoc call: what it was given and computed
  now,           \* Date.now()
  lastOp,        \* the handler that ran last, with what it was given
  fn,            \* the harness of the pure functions: input and result
  editor,        \* NotionEditor: the content of the editor (editor.getJSON().content)
  isInternalUpdate,  \* NotionEditor: useRef(false)
  timers,        \* how many setTimeout callbacks of onUpdate are yet to run
  effectPending, \* the useEffect on contentMarkdown is yet to run for the last change
  origin,        \* who wrote the session markdown last: mount, editor or external
  lastSync       \* what the last run of the useEffect did

\* the state of the NotionEditor component
edVars == <<editor, isInternalUpdate, timers, effectPending, origin, lastSync>>

vars == <<docState, messages, isLoading, findings, nextQuestion, request, now, lastOp, fn,
          editor, isInternalUpdate, timers, effectPending, origin, lastSync>>

appVars == <<docState, messages, isLoading, findings, nextQuestion, request, now, lastOp,
             editor, isInternalUpdate, timers, effectPending, origin, lastSync>>

NoRequest == [pending |-> FALSE]

NoFn == [op |-> "none"]

DocumentState(markdown, json, sections, lastUpdated) ==
  [markdown |-> markdown, json |-> json, sections |-> sections, lastUpdated |-> lastUpdated]

AppInit ==
  /\ now = TickMs
  /\ docState = DocumentState(INITIAL_MARKDOWN, parseMarkdownToJSON(INITIAL_MARKDOWN),
                              INITIAL_SECTION_META, now)
  /\ messages = <<"greeting">>
  /\ isLoading = FALSE
  /\ findings = "empty"
  /\ nextQuestion = "empty"
  /\ request = NoRequest
  /\ lastOp = [kind |-> "init"]
  \* useEditor without content: a document of one empty paragraph; the effect of
  \* the first render is yet to run
  /\ editor = <<Paragraph(<<>>)>>
  /\ isInternalUpdate = FALSE
  /\ timers = 0
  /\ effectPending = TRUE
  /\ origin = "mount"
  /\ lastSync = "none"

Init == AppInit /\ fn = NoFn

\* time passes
Tick ==
  /\ now < TickMs * (MaxTicks + 1)
  /\ now' = now + TickMs
  /\ UNCHANGED <<docState, messages, isLoading, findings, nextQuestion, request, lastOp, fn>>
  /\ UNCHANGED edVars

(***************************************************************************)
(* handleSendMessage, up to the await of processChatAndDoc                 *)
(***************************************************************************)
\* processChatAndDoc up to its first await: the prompt is built from the arguments
PromptOf(currentMarkdown, sectionsMeta) ==
  [pending |-> TRUE,
   currentMarkdown |-> currentMarkdown,
   sectionsMeta |-> sectionsMeta,
   lockedSections |-> lockedSections(sectionsMeta, now)]

\* faulty variant: a send is not held back while a request is pending
HandleSendMessageWhileLoading(blankInput) ==
  /\ Len(messages) + 2 <= MaxMessages
  /\ IF blankInput
     THEN /\ lastOp' = [kind |-> "sendIgnored", blank |-> blankInput]
          /\ UNCHANGED <<docState, messages, isLoading, findings, nextQuestion, request>>
     ELSE /\ messages' = Append(messages, "user")
          /\ isLoading' = TRUE
          /\ request' = PromptOf(docState.markdown, docState.sections)
          /\ lastOp' = [kind |-> "send", blank |-> blankInput]
          /\ UNCHANGED <<docState, findings, nextQuestion>>
  /\ UNCHANGED <<now, fn>>

HandleSendMessage(blankInput) ==
  /\ Len(messages) + 2 <= MaxMessages
  /\ IF blankInput \/ isLoading
     THEN /\ lastOp' = [kind |-> "sendIgnored", blank |-> blankInput]
          /\ UNCHANGED <<docState, messages, isLoading, findings, nextQuestion, request>>
     ELSE /\ messages' = Append(messages, "user")
          /\ isLoading' = TRUE
          /\ request' = PromptOf(docState.markdown, docState.sections)
          /\ lastOp' = [kind |-> "send", blank |-> blankInput]
          /\ UNCHANGED <<docState, findings, nextQuestion>>
  /\ UNCHANGED <<now, fn>>

(***************************************************************************)
(* processChatAndDoc after the prompt, and the rest of handleSendMessage   *)
(***************************************************************************)
\* the document-generation call: it throws, answers no text, or answers a text
DocOutcomes ==
  {[kind |-> "throw", text |-> <<>>], [kind |-> "text", text |-> <<>>]}
    \cup {[kind |-> "text", text |-> t] : t \in AITexts}

\* let updatedMarkdown = currentMarkdown; replaced only by a non-empty answer
updatedMarkdown(currentMarkdown, doc) ==
  IF doc.kind = "text" /\ doc.text # <<>> THEN doc.text ELSE currentMarkdown

\* the review call: findings stays [] unless JSON.parse succeeds
ReviewOutcomes == {"throw", "empty", "invalidJson", "list", "notList", "null"}

reviewFindings(review) ==
  CASE review = "list" -> "list"
    [] review = "notList" -> "notList"
    [] review = "null" -> "null"
    [] OTHER -> "empty"

\* the chat call and the next-question call share one try block
ChatOutcomes == {"throw", "empty", "text"}

QuestionOutcomes == {"throw", "empty", "text"}

assistantMessage(chat) == IF chat = "text" THEN "assistantText" ELSE "assistantDefault"

nextQuestionOf(chat, question) ==
  IF chat # "throw" /\ question = "text" THEN "text" ELSE "empty"

\* faulty variant: the updater works on the sections captured when the request
\* was issued
StaleUpdaterPrev == [docState EXCEPT !.sections = request.sectionsMeta]

\* the state setDocState hands to its updater: the current one
UpdaterPrev == docState

\* the updater of handleSendMessage
ApplyRewrite(prev, newMarkdown, t) ==
  DocumentState(newMarkdown, parseMarkdownToJSON(newMarkdown),
                newSections(prev.sections, extractSections(newMarkdown), t), t)

\* getAI() throws before any try block of processChatAndDoc: the promise rejects
CompleteRejected ==
  /\ request.pending
  /\ messages' = Append(messages, "error")
  /\ isLoading' = FALSE
  /\ request' = NoRequest
  /\ lastOp' = [kind |-> "complete", rejected |-> TRUE]
  /\ UNCHANGED <<docState, findings, nextQuestion, now, fn>>

CompleteResolved(doc, review, chat, question) ==
  LET result == [assistantMessage |-> assistantMessage(chat),
                 updatedDocumentMarkdown |-> updatedMarkdown(request.currentMarkdown, doc),
                 reviewFindings |-> reviewFindings(review),
                 nextQuestion |-> nextQuestionOf(chat, question)]
      applied == result.updatedDocumentMarkdown # <<>>
  IN
  /\ request.pending
  /\ messages' = Append(messages, result.assistantMessage)
  /\ docState' = IF applied
                 THEN ApplyRewrite(UpdaterPrev, result.updatedDocumentMarkdown, now)
                 ELSE docState
  \* setFindings(result.reviewFindings || [])
  /\ findings' = IF result.reviewFindings = "null" THEN "empty" ELSE result.reviewFindings
  /\ nextQuestion' = result.nextQuestion
  /\ isLoading' = FALSE
  /\ request' = NoRequest
  /\ lastOp' = [kind |-> "complete", rejected |-> FALSE,
                docFailed |-> (doc.kind = "throw"), applied |-> applied,
                review |-> review,
                chatFailed |-> (chat = "throw" \/ question = "throw"),
                returned |-> result.updatedDocumentMarkdown,
                stale |-> (request.currentMarkdown # docState.markdown)]
  /\ UNCHANGED <<now, fn>>

(***************************************************************************)
(* handleDocUpdate                                                         *)
(***************************************************************************)
\* faulty variant: no early return on an unchanged markdown
ApplyUserEditUnguarded(prev, newMarkdown, newJson, t) ==
  DocumentState(newMarkdown, newJson,
                newSectionsMeta(prev.sections, extractSections(newMarkdown), t), t)

\* the updater of handleDocUpdate
ApplyUserEdit(prev, newMarkdown, newJson, t) ==
  IF prev.markdown = newMarkdown THEN prev
  ELSE DocumentState(newMarkdown, newJson,
                     newSectionsMeta(prev.sections, extractSections(newMarkdown), t), t)

HandleDocUpdate(newMarkdown, newJson, mode) ==
  /\ docState' = ApplyUserEdit(docState, newMarkdown, newJson, now)
  /\ lastOp' = [kind |-> "docUpdate", mode |-> mode, markdown |-> newMarkdown,
                same |-> (docState.markdown = newMarkdown)]
  /\ UNCHANGED <<messages, isLoading, findings, nextQuestion, request, now, fn>>

\* NotionEditor onUpdate: the editor serializes its content
EditorUpdate == \E json \in EditorDocs : HandleDocUpdate(serializeToMarkdown(json), json, "notion")

\* the raw textarea onChange
RawUpdate == \E text \in RawTexts : HandleDocUpdate(text, parseMarkdownToJSON(text), "raw")

(***************************************************************************)
(* handleNextSection                                                       *)
(***************************************************************************)
HandleNextSection ==
  LET currentSections == extractSections(docState.markdown)
      nextSectionTitle == INITIAL_SECTIONS[Len(currentSections) + 1]
      newMarkdown == Trim(docState.markdown) \o <<NL, NL, "#", " ">>
                       \o nextSectionTitle \o <<NL, NL>>
  IN
  /\ Len(messages) + (IF isLoading THEN 2 ELSE 1) <= MaxMessages
  /\ IF Len(currentSections) >= Len(INITIAL_SECTIONS)
     THEN /\ lastOp' = [kind |-> "nextSection", added |-> FALSE]
          /\ UNCHANGED <<docState, messages>>
     ELSE /\ docState' = DocumentState(newMarkdown, parseMarkdownToJSON(newMarkdown),
                           Append(docState.sections, SectionMeta(nextSectionTitle, 0, FALSE)),
                           now)
          /\ messages' = Append(messages, "sectionAdded")
          /\ lastOp' = [kind |-> "nextSection", added |-> TRUE]
  /\ UNCHANGED <<isLoading, findings, nextQuestion, request, now, fn>>

\* the side calls: all answer, all fail, or the review answers a text that is
\* not JSON, or JSON that is not a list, next to a chat that answers or fails
SideOutcomes ==
  {<<"list", "text", "text">>, <<"throw", "throw", "throw">>,
   <<"invalidJson", "text", "text">>, <<"notList", "throw", "throw">>}

\* the session on its own: the handlers of App.tsx, fed by whatever the editing
\* surface hands over; the state of the NotionEditor component is not followed
Next ==
  \/ Tick
  \/ \E blankInput \in BOOLEAN : HandleSendMessage(blankInput) /\ UNCHANGED edVars
  \/ CompleteRejected /\ UNCHANGED edVars
  \/ \E doc \in DocOutcomes, side \in SideOutcomes :
       CompleteResolved(doc, side[1], side[2], side[3]) /\ UNCHANGED edVars
  \/ EditorUpdate /\ UNCHANGED edVars
  \/ RawUpdate /\ UNCHANGED edVars
  \/ HandleNextSection /\ UNCHANGED edVars

Spec == Init /\ [][Next]_vars

(***************************************************************************)
(* The session while the user edits nothing: requests, their results and   *)
(* next-section only.                                                      *)
(***************************************************************************)
\* what the document-generation call answers: the document under another
\* title of the catalog, besides the answers of DocOutcomes
ScaffoldDocOutcomes ==
  DocOutcomes \cup {[kind |-> "text", text |-> H1(T2) \o <<NL, NL, "y">>]}

ScaffoldNext ==
  \/ Tick
  \/ HandleSendMessage(FALSE) /\ UNCHANGED edVars
  \/ \E doc \in ScaffoldDocOutcomes :
       CompleteResolved(doc, "list", "text", "text") /\ UNCHANGED edVars
  \/ HandleNextSection /\ UNCHANGED edVars

SpecScaffold == Init /\ [][ScaffoldNext]_vars

(***************************************************************************)
(* The session with raw texts that begin with white space                  *)
(***************************************************************************)
\* what the user types in raw mode: the texts of RawTexts, and a heading line
\* typed after a space
IndentedRawTexts == RawTexts \cup {<<" ">> \o H1(T1)}

SessionNext ==
  \/ \E text \in IndentedRawTexts :
       HandleDocUpdate(text, parseMarkdownToJSON(text), "raw") /\ UNCHANGED edVars
  \/ EditorUpdate /\ UNCHANGED edVars
  \/ HandleSendMessage(FALSE) /\ UNCHANGED edVars
  \/ \E doc \in DocOutcomes :
       CompleteResolved(doc, "list", "text", "text") /\ UNCHANGED edVars
  \/ HandleNextSection /\ UNCHANGED edVars

SpecSession == Init /\ [][SessionNext]_vars

(***************************************************************************)
(* NotionEditor mounted (editorMode = notion): the editor content, the      *)
(* isInternalUpdate ref, the timers of onUpdate and the useEffect that      *)
(* loads contentMarkdown into the editor.  React runs the effect after a    *)
(* render in which contentMarkdown changed, before it handles the next      *)
(* event; a timer callback and the effect run in either order.              *)
(***************************************************************************)
\* how many timer callbacks of onUpdate wait at most
MaxTimers == 2

\* what the user makes of the editor content by typing
TypedDocs ==
  { <<Heading(1, T1), Paragraph(<<Run(<<"x">>, <<>>)>>)>>,
    <<Heading(1, T1), Paragraph(<<Run(<<"z">>, <<>>)>>)>> }

\* the render after a handler: the effect is scheduled when contentMarkdown changed
Rerender(writer) ==
  /\ effectPending' = (effectPending \/ docState'.markdown # docState.markdown)
  /\ origin' = IF docState'.markdown # docState.markdown THEN writer ELSE origin

\* onUpdate: the user changes the content of the editor
Keystroke(json) ==
  /\ ~effectPending
  /\ timers < MaxTimers
  /\ json # editor
  /\ editor' = json
  /\ isInternalUpdate' = TRUE
  /\ HandleDocUpdate(serializeToMarkdown(json), json, "notion")
  /\ timers' = timers + 1
  /\ Rerender("editor")
  /\ UNCHANGED lastSync

\* setTimeout(() => { isInternalUpdate.current = false; }, 0)
TimerFires ==
  /\ timers > 0
  /\ timers' = timers - 1
  /\ isInternalUpdate' = FALSE
  /\ UNCHANGED <<docState, messages, isLoading, findings, nextQuestion, request, now,
                 lastOp, fn, editor, effectPending, origin, lastSync>>

\* useEffect(() => {...}, [contentMarkdown, editor])
SyncEffect ==
  LET contentMarkdown == docState.markdown
      currentMD == serializeToMarkdown(editor)
  IN
  /\ effectPending
  /\ effectPending' = FALSE
  /\ IF ~isInternalUpdate /\ contentMarkdown # <<>>
     THEN IF Trim(currentMD) # Trim(contentMarkdown)
          THEN /\ editor' = parseMarkdownToJSON(contentMarkdown)
               /\ lastSync' = "setContent"
          ELSE /\ lastSync' = "same"
               /\ UNCHANGED editor
     ELSE /\ lastSync' = IF isInternalUpdate THEN "internal" ELSE "empty"
          /\ UNCHANGED editor
  /\ UNCHANGED <<docState, messages, isLoading, findings, nextQuestion, request, now,
                 lastOp, fn, isInternalUpdate, timers, origin>>

\* a handler of App.tsx that is not the editor's
External(handler) ==
  /\ ~effectPending
  /\ handler
  /\ Rerender("external")
  /\ UNCHANGED <<editor, isInternalUpdate, timers, lastSync>>

EditorNext ==
  \/ Tick
  \/ \E json \in TypedDocs : Keystroke(json)
  \/ TimerFires
  \/ SyncEffect
  \/ External(HandleSendMessage(FALSE))
  \/ \E doc \in DocOutcomes : External(CompleteResolved(doc, "list", "text", "text"))
  \/ External(HandleNextSection)

\* timer callbacks and effects are run by the event loop: they are not starved
SpecEditor ==
  Init /\ [][EditorNext]_vars /\ WF_vars(TimerFires) /\ WF_vars(SyncEffect)

(***************************************************************************)
(* The pure functions on their own: Init draws an input, one step applies  *)
(* the function of the source to it.                                       *)
(***************************************************************************)
\* the longest list of section metadata, of titles, of blocks and of lines drawn
MaxMeta == 2

MaxTitles == 2

MaxBlocks == 2

MaxLines == 2

SeqsUpTo(S, n) == UNION {[1..k -> S] : k \in 0..n}

Minute == 1000 * 60

\* metadata as any caller may pass it: any title, any edit time, either flag
MetaPool ==
  {SectionMeta(<<c>>, e, l) : c \in {"A", "B"}, e \in {0, Minute, Minute + 1},
                              l \in BOOLEAN}

NowPool == {k * Minute : k \in 1..4}

\* the metadata reconciliation starts from: two entries of one title that differ
\* in both fields, and another title
PrevPool == {SectionMeta(<<"A">>, 0, FALSE), SectionMeta(<<"A">>, Minute, TRUE),
             SectionMeta(<<"B">>, Minute, FALSE)}

TitlePool == {<<"A">>, <<"Z">>}

TextPool == {<<"a">>, <<>>, <<"#", "a">>, <<"-", " ", "a">>, <<">", " ", "a">>,
             <<"1", ".", " ", "a">>, Fence}

\* blocks of the supported subset: headings of level 1 to 3, paragraphs of one
\* unmarked run, lists, code blocks, quotes and dividers
BlockPool ==
  {Heading(l, <<"a">>) : l \in 1..3}
    \cup {Heading(1, <<>>)}
    \cup {Paragraph(<<Run(t, <<>>)>>) : t \in TextPool \ {<<>>}}
    \cup {BulletList(<<<<"a">>>>), BulletList(<<<<"a">>, <<"b">>>>), BulletList(<<<<>>>>),
          OrderedList(<<<<"a">>>>), OrderedList(<<<<"a">>, <<"b">>>>),
          CodeBlock(<<"a">>), CodeBlock(<<>>), Blockquote(<<"a">>), Blockquote(<<>>),
          Divider}

\* lines of a Markdown text; the only lines beginning with hash-space are headings
LinePool ==
  {H1(<<"A">>), H1(<<"A">>) \o <<" ">>, H1(<<"B">>), <<"#", "t">>, <<"#", "#", " ", "s">>,
   <<" ", "#", " ", "A">>, <<"x">>, <<>>, <<"-", " ", "a">>}

\* the longest text handed to the parser on its own, in lines
MaxParseLines == 3

\* lines of the kinds the list rules of the parser tell apart
ListLinePool ==
  {<<"-", " ", "a">>, <<"*", " ", "b">>, <<"1", ".", " ", "a">>, <<"2", ".", " ", "b">>,
   <<>>, <<"x">>, H1(<<"A">>)}

\* the emphasis marks the serializer knows
MarkTypes == {"bold", "italic", "code"}

\* the marks of a run: some of the mark types, each once, in any order
MarkLists ==
  {m \in SeqsUpTo(MarkTypes, Cardinality(MarkTypes)) :
     \A i, j \in DOMAIN m : i # j => m[i] # m[j]}

PureInputs ==
  {[op |-> "marks", text |-> <<"t">>, marks |-> m, done |-> FALSE] : m \in MarkLists}
    \cup
  {[op |-> "parse", lines |-> ls, done |-> FALSE] :
      ls \in SeqsUpTo(ListLinePool, MaxParseLines) \ {<<>>}}
    \cup
  {[op |-> "lock", sectionsMeta |-> m, t |-> t, done |-> FALSE] :
      m \in SeqsUpTo(MetaPool, MaxMeta) \ {<<>>}, t \in NowPool}
    \cup
  {[op |-> "reconcile", prev |-> m, titles |-> h, t |-> 3 * Minute, byUser |-> u,
    done |-> FALSE] :
      m \in SeqsUpTo(PrevPool, MaxMeta), h \in SeqsUpTo(TitlePool, MaxTitles),
      u \in BOOLEAN}
    \cup
  {[op |-> "roundTrip", blocks |-> b, done |-> FALSE] : b \in SeqsUpTo(BlockPool, MaxBlocks)}
    \cup
  {[op |-> "extract", markdown |-> Join(ls, <<NL>>), done |-> FALSE] :
      ls \in SeqsUpTo(LinePool, MaxLines) \ {<<>>}}

PureInit == AppInit /\ fn \in PureInputs

\* processChatAndDoc computing lockedSections
ApplyLockPolicy ==
  /\ fn.op = "lock" /\ ~fn.done
  /\ fn' = [op |-> "lock", sectionsMeta |-> fn.sectionsMeta, t |-> fn.t, done |-> TRUE,
            out |-> lockedSections(fn.sectionsMeta, fn.t)]
  /\ UNCHANGED appVars

\* the reconciliation of handleDocUpdate (byUser) and of handleSendMessage
ApplyReconcile ==
  /\ fn.op = "reconcile" /\ ~fn.done
  /\ fn' = [op |-> "reconcile", prev |-> fn.prev, titles |-> fn.titles, t |-> fn.t,
            byUser |-> fn.byUser, done |-> TRUE,
            out |-> IF fn.byUser THEN newSectionsMeta(fn.prev, fn.titles, fn.t)
                    ELSE newSections(fn.prev, fn.titles, fn.t)]
  /\ UNCHANGED appVars

\* serializeToMarkdown, then parseMarkdownToJSON of the result
ApplyRoundTrip ==
  /\ fn.op = "roundTrip" /\ ~fn.done
  /\ fn' = [op |-> "roundTrip", blocks |-> fn.blocks, done |-> TRUE,
            markdown |-> serializeToMarkdown(fn.blocks),
            out |-> parseMarkdownToJSON(serializeToMarkdown(fn.blocks))]
  /\ UNCHANGED appVars

\* extractSections of the text and of the text parsed and serialized again
ApplyExtract ==
  /\ fn.op = "extract" /\ ~fn.done
  /\ fn' = [op |-> "extract", markdown |-> fn.markdown, done |-> TRUE,
            direct |-> extractSections(fn.markdown),
            out |-> extractSections(serializeToMarkdown(parseMarkdownToJSON(fn.markdown)))]
  /\ UNCHANGED appVars

\* parseMarkdownToJSON of the lines joined by newlines
ApplyParse ==
  /\ fn.op = "parse" /\ ~fn.done
  /\ fn' = [op |-> "parse", lines |-> fn.lines, done |-> TRUE,
            out |-> parseMarkdownToJSON(Join(fn.lines, <<NL>>))]
  /\ UNCHANGED appVars

\* serializeToMarkdown of a document of one paragraph of one marked run
ApplyMarkedRun ==
  /\ fn.op = "marks" /\ ~fn.done
  /\ fn' = [op |-> "marks", text |-> fn.text, marks |-> fn.marks, done |-> TRUE,
            out |-> serializeToMarkdown(<<Paragraph(<<Run(fn.text, fn.marks)>>)>>)]
  /\ UNCHANGED appVars

PureNext ==
  \/ ApplyMarkedRun
  \/ ApplyLockPolicy
  \/ ApplyReconcile
  \/ ApplyRoundTrip
  \/ ApplyExtract
  \/ ApplyParse

SpecPure == PureInit /\ [][PureNext]_vars

(***************************************************************************)
(* Properties                                                              *)
(***************************************************************************)
Ids(sections) == [i \in 1..Len(sections) |-> sections[i].id]

Range(f) == {f[i] : i \in DOMAIN f}

Count(f, x) == Cardinality({i \in DOMAIN f : f[i] = x})

\* the first entry of sections with the given id
IsFirstWithId(sections, k, id) ==
  /\ k \in DOMAIN sections
  /\ sections[k].id = id
  /\ \A j \in 1..(k - 1) : sections[j].id # id

\* the Lock Policy as the specification words it, with its 2-minute window
PolicyWindow == 120000

PolicyLocked(s, t) == s.locked = TRUE \/ (s.editedAt # 0 /\ t - s.editedAt < PolicyWindow)

PolicyLockedIds(sections, t) == Ids(SelectSeq(sections, LAMBDA s : PolicyLocked(s, t)))

\* the steps of the handlers, told by what they do to the state
CompleteStep == request.pending /\ ~request'.pending

ResolvedStep == CompleteStep /\ ~lastOp'.rejected

SendStep == ~request.pending /\ request'.pending

DocUpdateStep == lastOp'.kind = "docUpdate" /\ now' = now

\* C1: when the document-generation call of a rewrite request fails, handling
\* the outcome leaves the document session (markdown, blocks, sections,
\* lastUpdated) as it was just before.
C1_FailedCallLeavesSession ==
  [][(ResolvedStep /\ lastOp'.docFailed) => docState' = docState]_vars

\* C2 as stated: every title of the extracted list appears exactly once in the
\* reconciled sections, in the extracted order, and an entry whose id was present
\* before keeps the locked flag of the entries of that id.
C2_EachTitleExactlyOnce ==
  (fn.op = "reconcile" /\ fn.done) =>
    /\ \A i \in DOMAIN fn.titles : Count(Ids(fn.out), fn.titles[i]) = 1
    /\ Ids(fn.out) = fn.titles
    /\ \A i \in DOMAIN fn.out : \A k \in DOMAIN fn.prev :
         fn.prev[k].id = fn.out[i].id => fn.out[i].locked = fn.prev[k].locked

\* C2 amended: the reconciled sections hold one entry per position of the
\* extracted list, in its order (a title extracted k times has k entries), and
\* an entry whose id was present before carries the locked flag of the first
\* previous entry of that id; both on the user path and on the rewrite path.
C2_OneEntryPerExtractedTitle ==
  (fn.op = "reconcile" /\ fn.done) =>
    /\ Ids(fn.out) = fn.titles
    /\ \A t \in Range(fn.titles) : Count(Ids(fn.out), t) = Count(fn.titles, t)
    /\ \A i \in DOMAIN fn.out : \A k \in DOMAIN fn.prev :
         IsFirstWithId(fn.prev, k, fn.out[i].id) => fn.out[i].locked = fn.prev[k].locked

C2_Witness ==
  /\ fn.op = "reconcile" /\ fn.done
  /\ Count(fn.titles, <<"A">>) = 2
  /\ Len(fn.prev) = 2 /\ fn.prev[1].id = <<"A">> /\ fn.prev[1].locked
  /\ fn.prev[2].id = <<"A">> /\ ~fn.prev[2].locked
  /\ fn.out[2].locked

\* which occurrence of its title the i-th entry is
Occurrence(sections, i) == Cardinality({j \in 1..i : sections[j].id = sections[i].id})

\* C3 as stated: applying a rewrite result leaves editedAt and locked of every
\* section whose title is in the session before and after as they were (the
\* n-th section of a title after is the n-th section of that title before).
C3_EverySectionUntouched ==
  [][(ResolvedStep /\ lastOp'.applied) =>
      \A i \in DOMAIN docState'.sections : \A k \in DOMAIN docState.sections :
        (/\ docState.sections[k].id = docState'.sections[i].id
         /\ Occurrence(docState.sections, k) = Occurrence(docState'.sections, i)) =>
          /\ docState'.sections[i].editedAt = docState.sections[k].editedAt
          /\ docState'.sections[i].locked = docState.sections[k].locked]_vars

\* C3 amended: applying a rewrite result gives every section whose title was in
\* the session before the editedAt and locked values of the first section of
\* that title before: its own values, unless an earlier section shares its title.
C3_RewriteKeepsMetadata ==
  [][(ResolvedStep /\ lastOp'.applied) =>
      \A i \in DOMAIN docState'.sections : \A k \in DOMAIN docState.sections :
        IsFirstWithId(docState.sections, k, docState'.sections[i].id) =>
          /\ docState'.sections[i].editedAt = docState.sections[k].editedAt
          /\ docState'.sections[i].locked = docState.sections[k].locked]_vars

C3_Witness ==
  /\ lastOp.kind = "complete" /\ ~lastOp.rejected /\ lastOp.applied
  /\ docState.lastUpdated = now
  /\ \E i \in DOMAIN docState.sections :
       docState.sections[i].editedAt # 0 /\ docState.sections[i].editedAt < now

\* C4: every section the Lock Policy reports locked right after a rewrite result
\* is applied was in the session, and locked, right before.
C4_RewriteLocksNothing ==
  [][(ResolvedStep /\ lastOp'.applied) =>
      \A id \in Range(PolicyLockedIds(docState'.sections, now')) :
        id \in Range(PolicyLockedIds(docState.sections, now))]_vars

\* C5: a user edit whose markdown is the session's current markdown leaves the
\* whole session unchanged.
C5_SameMarkdownIsNoOp ==
  [][(DocUpdateStep /\ lastOp'.markdown = docState.markdown) =>
      UNCHANGED <<docState, messages, isLoading, findings, nextQuestion, request>>]_vars

C5_Witness ==
  /\ lastOp.kind = "docUpdate" /\ lastOp.same
  /\ lastOp.markdown = docState.markdown
  /\ docState.lastUpdated < now
  /\ docState.sections # <<>>

\* C6: the locked list holds a section exactly when its flag is set, or its
\* editedAt is nonzero and less than 120000 ms before now; so a flagged section
\* is listed at every now, an unflagged one with editedAt 0 at none, one edited
\* 60000 ms ago is listed and one edited 180000 ms ago is not.
C6_LockPolicy ==
  (fn.op = "lock" /\ fn.done) =>
    /\ fn.out = PolicyLockedIds(fn.sectionsMeta, fn.t)
    /\ \A i \in DOMAIN fn.sectionsMeta :
         LET s == fn.sectionsMeta[i]
         IN  /\ s.locked => s.id \in Range(fn.out)
             /\ (Len(fn.sectionsMeta) = 1 /\ ~s.locked /\ s.editedAt = 0) => fn.out = <<>>
             /\ (Len(fn.sectionsMeta) = 1 /\ s.editedAt # 0 /\ fn.t - s.editedAt = 60000)
                  => fn.out = <<s.id>>
             /\ (Len(fn.sectionsMeta) = 1 /\ ~s.locked /\ fn.t - s.editedAt = 180000)
                  => fn.out = <<>>

C6_Witness ==
  /\ fn.op = "lock" /\ fn.done
  /\ Len(fn.sectionsMeta) = 2
  /\ ~fn.sectionsMeta[1].locked /\ fn.t - fn.sectionsMeta[1].editedAt = 60000
  /\ ~fn.sectionsMeta[2].locked /\ fn.sectionsMeta[2].editedAt = 0
  /\ fn.out = <<fn.sectionsMeta[1].id>>

\* C7: a user edit made while a request is pending is accepted, and the result
\* is applied on top of the session as it is at completion: the markdown is the
\* returned one, the blocks are its parse, and the metadata carried forward is
\* that of the sections at completion time.
C7_AppliedOnCurrentSession ==
  [][/\ (request.pending /\ DocUpdateStep) => docState'.markdown = lastOp'.markdown
     /\ (ResolvedStep /\ lastOp'.applied) =>
          /\ docState'.markdown = lastOp'.returned
          /\ docState'.json = parseMarkdownToJSON(lastOp'.returned)
          /\ Ids(docState'.sections) = extractSections(lastOp'.returned)
          /\ \A i \in DOMAIN docState'.sections : \A k \in DOMAIN docState.sections :
               IsFirstWithId(docState.sections, k, docState'.sections[i].id) =>
                 docState'.sections[i].editedAt = docState.sections[k].editedAt]_vars

C7_Witness ==
  /\ lastOp.kind = "complete" /\ ~lastOp.rejected /\ lastOp.applied /\ lastOp.stale
  /\ docState.markdown = lastOp.returned
  /\ \E i \in DOMAIN docState.sections :
       /\ docState.sections[i].id = T1
       /\ docState.sections[i].editedAt > TickMs

\* C8: what a request sends is computed when it is issued: the markdown is the
\* session's and the locked titles are the Lock Policy of the session's sections
\* at that time; nothing that happens while it is pending changes it.
C8_RequestFixedAtIssue ==
  [][/\ SendStep =>
          /\ request'.currentMarkdown = docState.markdown
          /\ request'.lockedSections = PolicyLockedIds(docState.sections, now)
     /\ (request.pending /\ request'.pending) => request' = request]_vars

C8_Witness ==
  /\ request.pending
  /\ request.lockedSections # <<>>
  /\ request.currentMarkdown # docState.markdown
  /\ request.lockedSections # PolicyLockedIds(docState.sections, now)

\* the text a block carries, whatever its kind
BlockText(b) ==
  CASE b.type = "heading" -> <<b.text>>
    [] b.type = "paragraph" -> <<Concat([i \in 1..Len(b.runs) |-> b.runs[i].text])>>
    [] b.type \in {"bulletList", "orderedList"} -> b.items
    [] b.type \in {"codeBlock", "blockquote"} -> <<b.text>>
    [] OTHER -> <<>>

BlockLevel(b) == IF b.type = "heading" THEN b.level ELSE 0

Equivalent(a, b) ==
  /\ Len(a) = Len(b)
  /\ \A i \in 1..Len(a) :
       /\ a[i].type = b[i].type
       /\ BlockText(a[i]) = BlockText(b[i])
       /\ BlockLevel(a[i]) = BlockLevel(b[i])

\* C9: parsing the serialization of blocks of the supported subset gives back
\* as many blocks, of the same kinds in the same order, with the same texts and
\* heading levels.
C9_RoundTrip ==
  (fn.op = "roundTrip" /\ fn.done) => Equivalent(fn.out, fn.blocks)

\* C10: extractSections of a text parsed and serialized again equals
\* extractSections of the text.
C10_ExtractIdempotent ==
  (fn.op = "extract" /\ fn.done) => fn.out = fn.direct

\* what a line is to the list rules: a bullet line, an ordered-list line, a blank
\* line or any other line
LineKind(l) ==
  LET line == TrimEnd(l)
  IN  IF line = <<>> THEN "blank"
      ELSE IF StartsWith(line, <<"-", " ">>) \/ StartsWith(line, <<"*", " ">>)
           THEN "bulletList"
      ELSE IF IsOrderedLine(line) THEN "orderedList"
      ELSE "other"

\* the lines that begin a run of consecutive lines of one list kind
RunStarts(lines, kind) ==
  {i \in DOMAIN lines :
     LineKind(lines[i]) = kind /\ (i = 1 \/ LineKind(lines[i - 1]) # kind)}

BlocksOf(blocks, kind) == {k \in DOMAIN blocks : blocks[k].type = kind}

\* C11: parse yields one BulletList per run of consecutive bullet lines and one
\* OrderedList per run of consecutive ordered-list lines: any other line, a
\* blank line included, closes the open list, and the items of a list that ends
\* the text are in the last block.
C11_ListsMergeAndClose ==
  (fn.op = "parse" /\ fn.done) =>
    /\ Cardinality(BlocksOf(fn.out, "bulletList"))
         = Cardinality(RunStarts(fn.lines, "bulletList"))
    /\ Cardinality(BlocksOf(fn.out, "orderedList"))
         = Cardinality(RunStarts(fn.lines, "orderedList"))
    /\ \A i \in DOMAIN fn.lines :
         (i = Len(fn.lines) /\ LineKind(fn.lines[i]) \in {"bulletList", "orderedList"})
           => fn.out[Len(fn.out)].type = LineKind(fn.lines[i])

\* the text wrapped by bold first, then italic, then code, for the marks present
FixedOrderWrap(text, markSet) ==
  LET b == IF "bold" \in markSet THEN <<"*", "*">> \o text \o <<"*", "*">> ELSE text
      i == IF "italic" \in markSet THEN <<"*">> \o b \o <<"*">> ELSE b
  IN  IF "code" \in markSet THEN <<BackTick>> \o i \o <<BackTick>> ELSE i

\* C12: a run serializes to its text wrapped by its marks in the order bold,
\* italic, code (code outermost), whatever the order the marks are listed in.
C12_MarksInFixedOrder ==
  (fn.op = "marks" /\ fn.done) => fn.out = FixedOrderWrap(fn.text, Range(fn.marks))

\* C13: when the review call answers a payload that is not a list of findings
\* (not JSON at all, or JSON of another shape), the findings become the empty
\* list, the request does not fail (no error message is appended), and the
\* returned markdown is applied to the session.
C13_BadFindingsAreNoFindings ==
  [][(ResolvedStep /\ lastOp'.review \in {"invalidJson", "notList"}) =>
      /\ findings' = "empty"
      /\ messages'[Len(messages')] # "error"
      /\ lastOp'.returned # <<>> =>
           /\ docState'.markdown = lastOp'.returned
           /\ docState'.lastUpdated = now]_vars

\* a remote call of the request that completes in this step failed
FaultStep ==
  /\ CompleteStep
  /\ IF lastOp'.rejected THEN TRUE
     ELSE lastOp'.docFailed \/ lastOp'.review = "throw" \/ lastOp'.chatFailed

\* C14: when any remote call of a rewrite request fails, handleSendMessage
\* still completes (the loading flag is reset, nothing is left pending) and the
\* message it appends to the transcript is the fallback message reporting the
\* failure, not a message confirming a document update.
C14_FaultsReportedInTranscript ==
  [][FaultStep =>
      /\ ~isLoading' /\ ~request'.pending
      /\ messages' = Append(messages, "error")]_vars

\* the step of the effect
SyncStep == effectPending /\ ~effectPending'

\* C15: applying a rewrite result whose markdown is, after trimming, the
\* session's current markdown is skipped: the session keeps its sections and
\* its lastUpdated, and the content of the editor is not set again (no load
\* into the editor is scheduled by it).
C15_EquivalentRewriteSkipped ==
  [][(ResolvedStep /\ lastOp'.applied
        /\ Trim(lastOp'.returned) = Trim(docState.markdown)) =>
      /\ docState'.sections = docState.sections
      /\ docState'.lastUpdated = docState.lastUpdated
      /\ editor' = editor
      /\ effectPending' = effectPending]_vars

\* a step of handleSendMessage: one that issues a request, any attempt
IssueStep == lastOp'.kind = "send" /\ messages' # messages

AttemptStep == lastOp'.kind \in {"send", "sendIgnored"} /\ now' = now

\* C16: the loading flag is true exactly while a request is pending; a send
\* attempted while it is true, or with blank input, issues no request and
\* changes no state; a request is issued only when none is pending; the flag is
\* false again once the request has completed or failed, and a send attempted
\* with the flag false and input that is not blank issues a request.
C16_OneRequestInFlight ==
  /\ [](isLoading <=> request.pending)
  /\ [][/\ (AttemptStep /\ (isLoading \/ lastOp'.blank)) =>
            UNCHANGED <<docState, messages, isLoading, findings, nextQuestion, request>>
        /\ IssueStep => (~isLoading /\ ~request.pending /\ request'.pending /\ isLoading')
        /\ CompleteStep => ~isLoading'
        /\ (AttemptStep /\ ~isLoading /\ ~lastOp'.blank) => request'.pending]_vars

C16_Witness ==
  /\ lastOp.kind = "sendIgnored" /\ ~lastOp.blank
  /\ isLoading /\ request.pending
  /\ Count(messages, "user") = 1

\* C17: a user edit that changes the markdown at time now gives the session one
\* entry per title of the new markdown, every one with editedAt = now: an entry
\* carried forward is bumped (and keeps its flag), a new title gets editedAt =
\* now and locked = FALSE; lastUpdated becomes now.
C17_UserEditBumpsEverySection ==
  [][(DocUpdateStep /\ lastOp'.markdown # docState.markdown) =>
      /\ docState'.markdown = lastOp'.markdown
      /\ Ids(docState'.sections) = extractSections(lastOp'.markdown)
      /\ docState'.lastUpdated = now
      /\ \A i \in DOMAIN docState'.sections :
           /\ docState'.sections[i].editedAt = now
           /\ ~HasId(docState.sections, docState'.sections[i].id) =>
                ~docState'.sections[i].locked
           /\ \A k \in DOMAIN docState.sections :
                IsFirstWithId(docState.sections, k, docState'.sections[i].id) =>
                  docState'.sections[i].locked = docState.sections[k].locked]_vars

C17_Witness ==
  /\ lastOp.kind = "docUpdate" /\ ~lastOp.same
  /\ now > TickMs /\ docState.lastUpdated = now
  /\ Len(docState.sections) = 2
  /\ \A i \in DOMAIN docState.sections : docState.sections[i].editedAt = now

\* the title has a section as scaffolded: never edited, not flagged
Scaffolded(sections, title) ==
  \E i \in DOMAIN sections :
    sections[i].id = title /\ sections[i].editedAt = 0 /\ ~sections[i].locked

NextSectionStep == lastOp'.kind = "nextSection" /\ now' = now

\* C18: while the user edits nothing, a title whose section was scaffolded
\* (editedAt = 0, locked = FALSE) is at no time in the locked list a request
\* issued then would carry, whatever rewrites were applied and sections
\* appended before; next-section appends the catalog title at the index of the
\* current number of top-level sections as such a section, and does nothing
\* when that number has reached the length of the catalog.
C18_ScaffoldedNeverLocked ==
  /\ [](\A i \in DOMAIN docState.sections :
          Scaffolded(docState.sections, docState.sections[i].id) =>
            docState.sections[i].id \notin Range(PolicyLockedIds(docState.sections, now)))
  /\ [][NextSectionStep =>
          LET count == Len(extractSections(docState.markdown))
          IN  IF count >= Len(INITIAL_SECTIONS)
              THEN docState' = docState /\ messages' = messages
              ELSE docState'.sections =
                     Append(docState.sections,
                            SectionMeta(INITIAL_SECTIONS[count + 1], 0, FALSE))]_vars

\* C19: in every state of the session, after any user edits, applied rewrites
\* and next-section operations, the ids of the sections, in order, are
\* extractSections of the session markdown.
C19_SectionsMatchMarkdown ==
  Ids(docState.sections) = extractSections(docState.markdown)

\* the session markdown came from outside the editor, is not empty and differs,
\* after trimming, from the serialization of the editor content
ExternalUnsynced ==
  /\ origin = "external"
  /\ docState.markdown # <<>>
  /\ Trim(serializeToMarkdown(editor)) # Trim(docState.markdown)

\* the editor shows the session markdown, or the editor has written the
\* session markdown itself since
EditorLoaded ==
  \/ editor = parseMarkdownToJSON(docState.markdown)
  \/ origin # "external"

\* C20: whenever the session markdown is replaced from outside the editor by a
\* text that is not empty and differs, after trimming, from the serialization
\* of the editor content, the editor content eventually becomes the parse of
\* the session markdown, also when the flag set by a keystroke is not yet reset
\* at that time; and the effect never sets the editor content after an update
\* that came from the editor itself.
C20_EditorFollowsSession ==
  /\ ExternalUnsynced ~> EditorLoaded
  /\ [][(SyncStep /\ origin = "editor") =>
          (editor' = editor /\ lastSync' # "setContent")]_vars

====
